---- MODULE Spec2Model ----
(***************************************************************************)
(* Model of the typed RPC router (src/trpc/routers/_app.ts), the event     *)
(* dispatcher it publishes to, and the background function `execute`       *)
(* (inngest functions file) of the n8n-clone repository.                   *)
(*                                                                         *)
(* An RPC invocation is split at its await points: the call enters the     *)
(* procedure (middleware + synchronous prefix), the awaited promise        *)
(* settles (resolves or throws), and the continuation returns.             *)
(* A run of the background function is split at each step.ai.wrap await.   *)
(* The page routes, the workflow page in the browser and the functions of  *)
(* the documented content loader (getAllPosts, getRelatedPosts,            *)
(* getSeriesInfo) have their own specifications; a loader call is split at *)
(* each awaited fs call, between which the content directory may change.   *)
(***************************************************************************)
EXTENDS Integers, Sequences, FiniteSets, TLC

\* ------------------------------------------------------------------ bounds
MaxCalls == 2
MaxStore == 2
MaxRuns == 1
MaxTriggers == 1
MaxRetries == 1
MaxVisits == 2
MaxClicks == 2
MaxPosts == 2
MaxRelated == 4
MaxLimit == 2
MaxWrites == 1

\* ------------------------------------------------------------ input domains
\* "anon" is a request without a session; the others carry a session.
Callers == {"anon", "alice", "bob"}

WorkflowIds == {"w1", "w2", "w3"}

\* Texts a provider may answer with.
Answers == {"29", "twenty-nine"}

\* Procedure names a request may carry: the two of appRouter and the two
\* more that the pages ask for (trpc.testAi, trpc.getUsers).
Procedures == {"getWorkflows", "createWorkflow", "testAi", "getUsers"}

VARIABLES
    storage,    \* rows of the workflow table, in the order findMany yields them
    invs,       \* RPC invocations, in order of arrival
    events,     \* events the dispatcher has accepted, in order of arrival
    delivered,  \* indices of events the dispatcher has handed to a function
    runs,       \* runs of background functions, in order of start
    visits,     \* requests for a page route, in order of arrival
    page,       \* the workflow page mounted in the browser
    blog        \* the content directory of the blog and the loader call made

vars == <<storage, invs, events, delivered, runs, visits, page, blog>>

\* ------------------------------------------------------------- JS values
Undefined == [kind |-> "undefined"]

Obj(fields) == [kind |-> "object", fields |-> fields]

\* The workflow page before any browser has mounted it.
Unmounted ==
    [visitor |-> "none",
     query |-> [inv |-> 0, status |-> "idle", data |-> Undefined],
     disabled |-> [button \in {"create", "testAi"} |-> FALSE],
     mutations |-> <<>>, toasts |-> <<>>]

Num(n) == [kind |-> "number", value |-> n]

Str(t) == [kind |-> "string", value |-> t]

Bool(b) == [kind |-> "boolean", value |-> b]

\* JavaScript truthiness of an optional number, string or boolean.
truthy(v) ==
    CASE v.kind = "undefined" -> FALSE
      [] v.kind = "number" -> v.value # 0
      [] v.kind = "string" -> v.value # ""
      [] v.kind = "boolean" -> v.value
      [] OTHER -> TRUE

\* ------------------------------------------------------------ persistence
\* A read that drops the first row (a stray `skip: 1`).
findManySkipFirst(table) == IF table = <<>> THEN table ELSE Tail(table)

\* prisma.workflow.findMany() with no arguments: every row, storage order.
findMany(table) == table

\* --------------------------------------------------------------- router
\* The procedures appRouter declares.
appRouterProcedures == {"getWorkflows", "createWorkflow"}

\* createWorkflow built on the unprotected base procedure.
procedureBuilderPublic(proc) ==
    CASE proc = "getWorkflows" -> "protectedProcedure"
      [] proc = "createWorkflow" -> "baseProcedure"

\* Which procedure builder each procedure of appRouter is built on.
procedureBuilder(proc) ==
    CASE proc = "getWorkflows" -> "protectedProcedure"
      [] proc = "createWorkflow" -> "protectedProcedure"

\* protectedProcedure lets a call through only when it carries a session.
hasSession(caller) == caller # "anon"

passesMiddleware(proc, caller) ==
    procedureBuilder(proc) = "protectedProcedure" => hasSession(caller)

\* The event with a mistyped name.
createWorkflowEventMisnamed ==
    [name |-> "test/hello-world", data |-> Obj([email |-> "test@gmail.com"])]

\* The event createWorkflow hands to inngest.send.
createWorkflowEvent ==
    [name |-> "test/hello.world", data |-> Obj([email |-> "test@gmail.com"])]

\* A result that reports failure.
createWorkflowResultFalse ==
    [success |-> FALSE, message |-> "Workflow creation triggered"]

\* The value createWorkflow returns.
createWorkflowResult ==
    [success |-> TRUE, message |-> "Workflow creation triggered"]

\* The event a procedure hands to inngest.send: createWorkflow is the only
\* procedure that publishes.
eventOf(proc) == CASE proc = "createWorkflow" -> createWorkflowEvent

\* The value a mutation returns after its publish.
resultOf(proc) == CASE proc = "createWorkflow" -> createWorkflowResult

\* The return statement reached without awaiting inngest.send.
returnPointNoAwait == "sending"

\* pc of a createWorkflow invocation at which its return statement runs.
returnPoint == "sent"

\* The handler publishing a second time.
sendsTwice == 1 + 1

\* Number of inngest.send calls one pass through the handler makes.
sendsPerCall == 1

NewInv(proc, caller) ==
    [proc |-> proc, caller |-> caller, pc |-> "start", outcome |-> "pending",
     value |-> Undefined, error |-> "", reads |-> 0, readResult |-> "none",
     sends |-> 0, sendResult |-> "none"]

\* ------------------------------------------------------- RPC invocations
\* A request for `proc` arrives from `caller`. A name appRouter does not
\* declare reaches no handler: the request fails with NOT_FOUND. For a
\* declared name the middleware runs and, when it lets the call through, the
\* handler runs up to its first await.
Call(proc, caller) ==
    LET i0 == NewInv(proc, caller)
        i1 == IF proc \notin appRouterProcedures
              THEN [i0 EXCEPT !.pc = "done", !.outcome = "error",
                              !.error = "NOT_FOUND"]
              ELSE IF ~passesMiddleware(proc, caller)
              THEN [i0 EXCEPT !.pc = "done", !.outcome = "error",
                              !.error = "UNAUTHORIZED"]
              ELSE IF proc = "getWorkflows"
              THEN [i0 EXCEPT !.pc = "reading", !.reads = 1]
              ELSE [i0 EXCEPT !.pc = "sending", !.sends = sendsPerCall]
    IN invs' = Append(invs, i1)

\* A request that does not come from the mounted workflow page.
Invoke(proc, caller) ==
    /\ Len(invs) < MaxCalls
    /\ Call(proc, caller)
    /\ UNCHANGED <<storage, events, delivered, runs, visits, page, blog>>

\* The read also publishing an event of its own.
ReadResolvesPublishes(i) ==
    /\ invs[i].pc = "reading"
    /\ invs' = [invs EXCEPT ![i].pc = "done", ![i].outcome = "returned",
                            ![i].readResult = "resolved",
                            ![i].value = findMany(storage)]
    /\ events' = Append(events,
                        [name |-> "workflows/read", data |-> Obj(<<>>), by |-> i])
    /\ UNCHANGED <<storage, delivered, runs, visits, page, blog>>

\* getWorkflows: the promise of findMany resolves; tRPC returns its value.
ReadResolves(i) ==
    /\ invs[i].pc = "reading"
    /\ invs' = [invs EXCEPT ![i].pc = "done", ![i].outcome = "returned",
                            ![i].readResult = "resolved",
                            ![i].value = findMany(storage)]
    /\ UNCHANGED <<storage, events, delivered, runs, visits, page, blog>>

\* The rejection caught and an empty list returned in its place.
ReadThrowsFallback(i) ==
    /\ invs[i].pc = "reading"
    /\ invs' = [invs EXCEPT ![i].pc = "done", ![i].outcome = "returned",
                            ![i].readResult = "threw", ![i].value = <<>>]
    /\ UNCHANGED <<storage, events, delivered, runs, visits, page, blog>>

\* getWorkflows: the promise of findMany rejects; the error propagates.
ReadThrows(i) ==
    /\ invs[i].pc = "reading"
    /\ invs' = [invs EXCEPT ![i].pc = "done", ![i].outcome = "error",
                            ![i].readResult = "threw",
                            ![i].error = "INTERNAL_SERVER_ERROR"]
    /\ UNCHANGED <<storage, events, delivered, runs, visits, page, blog>>

\* A dispatcher that drops an event equal to one it already holds.
SendResolvesMergesEqual(i) ==
    /\ invs[i].pc = "sending"
    /\ invs' = [invs EXCEPT ![i].pc = "sent", ![i].sendResult = "resolved"]
    /\ events' = IF \E e \in DOMAIN events :
                       /\ events[e].name = eventOf(invs[i].proc).name
                       /\ events[e].data = eventOf(invs[i].proc).data
                 THEN events
                 ELSE events \o [k \in 1..invs[i].sends |->
                                    eventOf(invs[i].proc) @@ [by |-> i]]
    /\ UNCHANGED <<storage, delivered, runs, visits, page, blog>>

\* The handler also inserting a workflow row before it returns.
SendResolvesInsertsRow(i) ==
    /\ invs[i].pc = "sending"
    /\ invs' = [invs EXCEPT ![i].pc = "sent", ![i].sendResult = "resolved"]
    /\ events' = events \o
                 [k \in 1..invs[i].sends |-> eventOf(invs[i].proc) @@ [by |-> i]]
    /\ storage' = IF \E w \in WorkflowIds : \A k \in DOMAIN storage : storage[k] # w
                  THEN Append(storage,
                              CHOOSE w \in WorkflowIds :
                                  \A k \in DOMAIN storage : storage[k] # w)
                  ELSE storage
    /\ UNCHANGED <<delivered, runs, visits, page, blog>>

\* The payload built from the caller's identity.
SendResolvesWithCaller(i) ==
    /\ invs[i].pc = "sending"
    /\ invs' = [invs EXCEPT ![i].pc = "sent", ![i].sendResult = "resolved"]
    /\ events' = Append(events,
                        [name |-> eventOf(invs[i].proc).name,
                         data |-> Obj([email |-> invs[i].caller]), by |-> i])
    /\ UNCHANGED <<storage, delivered, runs, visits, page, blog>>

\* await inngest.send(...) resolves: the dispatcher has accepted the event(s).
SendResolves(i) ==
    /\ invs[i].pc = "sending"
    /\ invs' = [invs EXCEPT ![i].pc = "sent", ![i].sendResult = "resolved"]
    /\ events' = events \o
                 [k \in 1..invs[i].sends |-> eventOf(invs[i].proc) @@ [by |-> i]]
    /\ UNCHANGED <<storage, delivered, runs, visits, page, blog>>

\* The rejection caught and dropped: control goes on to the return statement.
SendThrowsSwallowed(i) ==
    /\ invs[i].pc = "sending"
    /\ invs' = [invs EXCEPT ![i].pc = "sent", ![i].sendResult = "threw"]
    /\ UNCHANGED <<storage, events, delivered, runs, visits, page, blog>>

\* await inngest.send(...) throws: nothing follows the await, the mutation
\* rejects with the error.
SendThrows(i) ==
    /\ invs[i].pc = "sending"
    /\ invs' = [invs EXCEPT ![i].pc = "done", ![i].sendResult = "threw",
                            ![i].outcome = "error",
                            ![i].error = "INTERNAL_SERVER_ERROR"]
    /\ UNCHANGED <<storage, events, delivered, runs, visits, page, blog>>

\* The return statement after the await.
Return(i) ==
    /\ invs[i].proc # "getWorkflows"
    /\ invs[i].pc = returnPoint
    /\ invs[i].outcome = "pending"
    /\ invs' = [invs EXCEPT ![i].pc = "done", ![i].outcome = "returned",
                            ![i].value = resultOf(invs[i].proc)]
    /\ UNCHANGED <<storage, events, delivered, runs, visits, page, blog>>

\* ---------------------------------------------------- background function
\* Handler table of the dispatcher: the functions this repository registers,
\* each with the event name that triggers it.
functions == {[id |-> "execute-ai", event |-> "execute/ai"]}

\* An event sent to the dispatcher by a sender other than appRouter (the
\* router publishes "test/hello.world" only): the input of a function
\* registered for its name. `by` is 0 for such an event.
EventArrives(name) ==
    /\ events' = Append(events, [name |-> name, data |-> Obj(<<>>), by |-> 0])
    /\ UNCHANGED <<storage, invs, delivered, runs, visits, page, blog>>

\* The events at the dispatcher that arrived from such a sender.
Arrived == {e \in DOMAIN events : events[e].by = 0}

\* A trigger that matches every event name.
matchingAny(name) == functions

\* Functions the dispatcher invokes for an event of the given name.
matching(name) == {f \in functions : f.event = name}

\* The third step given the second step's name.
executeStepsSameName ==
    << [name |-> "gemini-generate-text", provider |-> "google",
        model |-> "gemini-2.5-flash",
        system |-> "You are a helpful assistant.", prompt |-> "What is 2+27?"],
       [name |-> "openai-generate-text", provider |-> "openai",
        model |-> "gpt-4",
        system |-> "You are a helpful assistant.", prompt |-> "What is 2+27?"],
       [name |-> "openai-generate-text", provider |-> "anthropic",
        model |-> "claude-3-5-haiku-latest",
        system |-> "You are a helpful assistant.", prompt |-> "What is 2+27?"] >>

\* The third call made with the second call's provider and model.
executeStepsSameModel ==
    << [name |-> "gemini-generate-text", provider |-> "google",
        model |-> "gemini-2.5-flash",
        system |-> "You are a helpful assistant.", prompt |-> "What is 2+27?"],
       [name |-> "openai-generate-text", provider |-> "openai",
        model |-> "gpt-4",
        system |-> "You are a helpful assistant.", prompt |-> "What is 2+27?"],
       [name |-> "anthropic-generate-text", provider |-> "openai",
        model |-> "gpt-4",
        system |-> "You are a helpful assistant.", prompt |-> "What is 2+27?"] >>

\* The three step.ai.wrap calls of `execute`, in program order.
executeSteps ==
    << [name |-> "gemini-generate-text", provider |-> "google",
        model |-> "gemini-2.5-flash",
        system |-> "You are a helpful assistant.", prompt |-> "What is 2+27?"],
       [name |-> "openai-generate-text", provider |-> "openai",
        model |-> "gpt-4",
        system |-> "You are a helpful assistant.", prompt |-> "What is 2+27?"],
       [name |-> "anthropic-generate-text", provider |-> "anthropic",
        model |-> "claude-3-5-haiku-latest",
        system |-> "You are a helpful assistant.", prompt |-> "What is 2+27?"] >>

NumSteps == Len(executeSteps)

\* generateText: the `steps` of a provider's response to one call.
generateText(args, answer) ==
    << [provider |-> args.provider, model |-> args.model, text |-> answer] >>

\* The aggregate with two groups bound to each other's result.
executeResultSwapped(memo) ==
    [geminiSteps |-> memo[executeSteps[1].name],
     openaiSteps |-> memo[executeSteps[3].name],
     anthropicSteps |-> memo[executeSteps[2].name]]

\* The object `execute` returns, from the results bound by its three awaits.
executeResult(memo) ==
    [geminiSteps |-> memo[executeSteps[1].name],
     openaiSteps |-> memo[executeSteps[2].name],
     anthropicSteps |-> memo[executeSteps[3].name]]

\* The step error caught and an aggregate of empty groups returned.
resultOnFailureEmptyGroups(memo) ==
    [geminiSteps |-> <<>>, openaiSteps |-> <<>>, anthropicSteps |-> <<>>]

\* What an uncaught step error leaves as the function's result.
resultOnFailure(memo) == Undefined

\* The awaits taken in reverse order.
resumeLast(memo) ==
    LET open == {k \in 1..NumSteps : executeSteps[k].name \notin DOMAIN memo}
    IN IF open = {} THEN NumSteps + 1
       ELSE CHOOSE k \in open : \A j \in open : k >= j

\* A loop back to the first call while any step has no result.
resumeFromTop(memo) ==
    IF \A k \in 1..NumSteps : executeSteps[k].name \in DOMAIN memo
    THEN NumSteps + 1 ELSE 1

\* Where an execution of `execute` stops, given the step results the runtime
\* holds: step.ai.wrap(name, ...) returns the recorded result of a name it
\* knows without calling the provider, so control runs on to the first step
\* whose name has no result yet, or to the return statement.
resume(memo) ==
    LET open == {k \in 1..NumSteps : executeSteps[k].name \notin DOMAIN memo}
    IN IF open = {} THEN NumSteps + 1
       ELSE CHOOSE k \in open : \A j \in open : k <= j

NewRun(e, f) ==
    [event |-> e, fn |-> f.id, pc |-> resume(<<>>), phase |-> "ready",
     memo |-> <<>>, responses |-> <<>>, calls |-> <<>>, retries |-> 0,
     status |-> "running",
     gaveUp |-> FALSE, result |-> Undefined]

\* The dispatcher hands event e to the function registered for its name.
Deliver(e) ==
    /\ e \notin delivered
    /\ Len(runs) < MaxRuns
    /\ \E f \in matching(events[e].name) :
          runs' = Append(runs, NewRun(e, f))
    /\ delivered' = delivered \cup {e}
    /\ UNCHANGED <<storage, invs, events, visits, page, blog>>

AtStep(r) ==
    /\ runs[r].status = "running"
    /\ runs[r].pc \in 1..NumSteps

\* step.ai.wrap(name, fn, args) for a name without a result: the runtime
\* calls fn(args), the provider call is in flight.
StepCall(r) ==
    /\ AtStep(r)
    /\ runs[r].phase = "ready"
    /\ runs' = [runs EXCEPT ![r].phase = "inflight",
                            ![r].calls = Append(@, executeSteps[runs[r].pc])]
    /\ UNCHANGED <<storage, invs, events, delivered, visits, page, blog>>

\* The provider call succeeds: the runtime records the result under the
\* step's name and executes the function on from there.
StepSucceeds(r, answer) ==
    /\ AtStep(r)
    /\ runs[r].phase = "inflight"
    /\ LET st == executeSteps[runs[r].pc]
           res == [steps |-> generateText(st, answer)]
           memo == (st.name :> res.steps) @@ runs[r].memo
       IN runs' = [runs EXCEPT ![r].memo = memo,
                               ![r].responses = (st.provider :> res.steps) @@ @,
                               ![r].pc = resume(memo),
                               ![r].phase = "ready",
                               ![r].retries = 0]
    /\ UNCHANGED <<storage, invs, events, delivered, visits, page, blog>>

\* The provider call fails and the runtime retries the step: it executes the
\* function again with the results recorded so far. `calls` holds the
\* provider calls of the current execution only.
StepRetry(r) ==
    /\ AtStep(r)
    /\ runs[r].phase = "inflight"
    /\ runs[r].retries < MaxRetries
    /\ runs' = [runs EXCEPT ![r].pc = resume(runs[r].memo),
                            ![r].phase = "ready",
                            ![r].calls = <<>>,
                            ![r].retries = @ + 1]
    /\ UNCHANGED <<storage, invs, events, delivered, visits, page, blog>>

\* The step error caught and the function going on to its next call.
StepGivesUpContinues(r) ==
    /\ AtStep(r)
    /\ runs[r].phase = "inflight"
    /\ runs' = [runs EXCEPT ![r].pc = @ + 1, ![r].phase = "ready",
                            ![r].gaveUp = TRUE]
    /\ UNCHANGED <<storage, invs, events, delivered, visits, page, blog>>

\* The provider call fails and the runtime does not recover the step: the
\* error is thrown into the function, which has no handler for it.
StepGivesUp(r) ==
    /\ AtStep(r)
    /\ runs[r].phase = "inflight"
    /\ runs' = [runs EXCEPT ![r].status = "failed", ![r].phase = "ready",
                            ![r].gaveUp = TRUE,
                            ![r].result = resultOnFailure(runs[r].memo)]
    /\ UNCHANGED <<storage, invs, events, delivered, visits, page, blog>>

\* The return statement of `execute`.
ExecuteReturns(r) ==
    /\ runs[r].status = "running"
    /\ runs[r].pc = NumSteps + 1
    /\ runs' = [runs EXCEPT ![r].status = "completed",
                            ![r].result = executeResult(runs[r].memo)]
    /\ UNCHANGED <<storage, invs, events, delivered, visits, page, blog>>

\* ------------------------------------------------------------ page routes
Pages == {"login", "register", "home", "workflows", "users"}

\* The register page without its guard call.
guardOfRegisterUnguarded(pg) ==
    CASE pg = "login" -> "requireUnauth"
      [] pg = "register" -> "none"
      [] pg = "home" -> "none"
      [] pg = "workflows" -> "none"
      [] pg = "users" -> "none"

\* The guard a page awaits before it returns its markup: the login and the
\* register page await requireUnauth(); the hello-world page, the workflow
\* page (a client component) and the users page call no guard.
guardOf(pg) ==
    CASE pg = "login" -> "requireUnauth"
      [] pg = "register" -> "requireUnauth"
      [] pg = "home" -> "none"
      [] pg = "workflows" -> "none"
      [] pg = "users" -> "none"

\* Whether a guard redirects the visitor: requireUnauth redirects a visitor
\* with a session, requireAuth one without.
guardRedirects(guard, visitor) ==
    CASE guard = "requireUnauth" -> hasSession(visitor)
      [] guard = "requireAuth" -> ~hasSession(visitor)
      [] OTHER -> FALSE

\* What a page returns.
contentOf(pg) ==
    CASE pg = "login" -> "LoginForm"
      [] pg = "register" -> "RegisterForm"
      [] pg = "home" -> "hello world"
      [] pg = "workflows" -> "WorkflowPage"
      [] pg = "users" -> "Loading..."

\* The procedure a page function prefetches on the server before it returns:
\* the users page starts prefetchQuery(trpc.getUsers.queryOptions()) and does
\* not await it.
prefetchOf(pg) == IF pg = "users" THEN "getUsers" ELSE "none"

\* A visitor requests a page; the page function runs up to its first await.
Visit(pg, visitor) ==
    /\ Len(visits) < MaxVisits
    /\ visits' = Append(visits,
          [page |-> pg, visitor |-> visitor,
           pc |-> IF guardOf(pg) = "none" THEN "render" ELSE "guard",
           guardDone |-> FALSE, prefetch |-> 0, output |-> "none"])
    /\ UNCHANGED <<storage, invs, events, delivered, runs, page, blog>>

\* The awaited guard redirects: the page function is left, nothing of the
\* page is produced.
GuardRedirects(v) ==
    /\ visits[v].pc = "guard"
    /\ guardRedirects(guardOf(visits[v].page), visits[v].visitor)
    /\ visits' = [visits EXCEPT ![v].pc = "done", ![v].guardDone = TRUE,
                                ![v].output = "redirect"]
    /\ UNCHANGED <<storage, invs, events, delivered, runs, page, blog>>

\* The awaited guard resolves: the page function goes on to its return.
GuardPasses(v) ==
    /\ visits[v].pc = "guard"
    /\ ~guardRedirects(guardOf(visits[v].page), visits[v].visitor)
    /\ visits' = [visits EXCEPT ![v].pc = "render", ![v].guardDone = TRUE]
    /\ UNCHANGED <<storage, invs, events, delivered, runs, page, blog>>

\* The rest of the page function: the prefetch, if the page has one, is
\* started as a direct call of the router with the visitor's request as its
\* context, and the markup is returned.
Render(v) ==
    /\ visits[v].pc = "render"
    /\ IF prefetchOf(visits[v].page) = "none"
       THEN /\ invs' = invs
            /\ visits' = [visits EXCEPT ![v].pc = "done",
                                        ![v].output = contentOf(visits[v].page)]
       ELSE /\ Call(prefetchOf(visits[v].page), visits[v].visitor)
            /\ visits' = [visits EXCEPT ![v].pc = "done",
                                        ![v].prefetch = Len(invs) + 1,
                                        ![v].output = contentOf(visits[v].page)]
    /\ UNCHANGED <<storage, events, delivered, runs, page, blog>>

\* ------------------------------------------------------------ workflow page
Buttons == {"create", "testAi"}

\* The mutation behind each button.
procOf(button) == IF button = "create" THEN "createWorkflow" ELSE "testAi"

\* The message each mutation's onSuccess passes to toast.success.
successToast(button) ==
    IF button = "create" THEN "Workflow creation triggered" ELSE "AI job queued"

\* A toast wired to the settling of the mutation instead of its success.
onSettleAlways(button, m, outcome) ==
    << [message |-> successToast(button), for |-> m] >>

\* The toasts a mutation's callbacks show when it settles: onSuccess is the
\* only callback given.
onSettle(button, m, outcome) ==
    IF outcome = "returned"
    THEN << [message |-> successToast(button), for |-> m] >>
    ELSE <<>>

\* isPending of a button's useMutation: the state of the mutation that
\* mutate() started last.
isPending(button) ==
    LET own == {m \in DOMAIN page.mutations : page.mutations[m].button = button}
    IN /\ own # {}
       /\ page.mutations[CHOOSE m \in own : \A n \in own : n <= m].status = "pending"

\* The browser mounts a rendered workflow page: useQuery starts the
\* getWorkflows query, which is pending; its request has not reached the
\* server (inv is 0 until it has).
Mount(v) ==
    /\ page.visitor = "none"
    /\ visits[v].page = "workflows"
    /\ visits[v].output = contentOf("workflows")
    /\ page' = [page EXCEPT !.visitor = visits[v].visitor,
                            !.disabled = [button \in Buttons |-> isPending(button)],
                            !.query = [inv |-> 0, status |-> "pending",
                                       data |-> Undefined]]
    /\ UNCHANGED <<storage, invs, events, delivered, runs, visits, blog>>

\* The request of the pending getWorkflows query reaches the router.
QueryRequest ==
    /\ page.query.status = "pending"
    /\ page.query.inv = 0
    /\ Call("getWorkflows", page.visitor)
    /\ page' = [page EXCEPT !.query.inv = Len(invs) + 1]
    /\ UNCHANGED <<storage, events, delivered, runs, visits, blog>>

\* The getWorkflows query settles in the browser.
QuerySettles ==
    /\ page.query.status = "pending"
    /\ page.query.inv \in DOMAIN invs
    /\ invs[page.query.inv].outcome # "pending"
    /\ page' = [page EXCEPT
                  !.query.status =
                      IF invs[page.query.inv].outcome = "returned"
                      THEN "success" ELSE "error",
                  !.query.data = invs[page.query.inv].value]
    /\ UNCHANGED <<storage, invs, events, delivered, runs, visits, blog>>

\* Page() renders again after the state of a mutation has changed: each
\* button gets disabled={<its mutation>.isPending}.
Rerender ==
    /\ page.visitor # "none"
    /\ page.disabled # [button \in Buttons |-> isPending(button)]
    /\ page' = [page EXCEPT !.disabled = [button \in Buttons |-> isPending(button)]]
    /\ UNCHANGED <<storage, invs, events, delivered, runs, visits, blog>>

\* onClick of a button that is on screen without `disabled`: mutate() starts
\* a mutation, which is pending; its request has not reached the server (inv
\* is 0 until it has). The handler itself tests nothing.
Click(button) ==
    /\ page.visitor # "none"
    /\ Len(page.mutations) < MaxClicks
    /\ ~page.disabled[button]
    /\ page' = [page EXCEPT
                  !.mutations = Append(@, [button |-> button, inv |-> 0,
                                           status |-> "pending"])]
    /\ UNCHANGED <<storage, invs, events, delivered, runs, visits, blog>>

\* The request of the pending mutation m reaches the router.
MutationRequest(m) ==
    /\ page.mutations[m].status = "pending"
    /\ page.mutations[m].inv = 0
    /\ Call(procOf(page.mutations[m].button), page.visitor)
    /\ page' = [page EXCEPT !.mutations[m].inv = Len(invs) + 1]
    /\ UNCHANGED <<storage, events, delivered, runs, visits, blog>>

\* A mutation settles in the browser: its state changes and its callbacks run.
Settle(m) ==
    /\ page.mutations[m].status = "pending"
    /\ page.mutations[m].inv \in DOMAIN invs
    /\ invs[page.mutations[m].inv].outcome # "pending"
    /\ LET outcome == invs[page.mutations[m].inv].outcome IN
       page' = [page EXCEPT
                  !.mutations[m].status =
                      IF outcome = "returned" THEN "success" ELSE "error",
                  !.toasts = @ \o onSettle(page.mutations[m].button, m, outcome)]
    /\ UNCHANGED <<storage, invs, events, delivered, runs, visits, blog>>

\* ----------------------------------------------------------- content loader
\* A file or directory name is the sequence of its pieces, so that
\* startsWith, endsWith and replace act on it as they act on the string:
\* "a.mdx.b.mdx" is <<"a", ".mdx", ".b", ".mdx">>, "_drafts" is
\* <<"_", "drafts">>. A slug is a name too.
startsWith(name, piece) == Len(name) > 0 /\ name[1] = piece

endsWith(name, piece) == Len(name) > 0 /\ name[Len(name)] = piece

\* String.prototype.replace(piece, ""): the first occurrence is removed.
replace(name, piece) ==
    LET at == {k \in DOMAIN name : name[k] = piece} IN
    IF at = {} THEN name
    ELSE LET k == CHOOSE i \in at : \A j \in at : i <= j
         IN SubSeq(name, 1, k - 1) \o SubSeq(name, k + 1, Len(name))

\* `${slug}.mdx`
mdxOf(slug) == slug \o <<".mdx">>

Dates == {"2025-01-15", "2025-02-01"}

TagLists == {<<"typescript">>, <<"react">>, <<"typescript", "react">>}

Categories == {"tutorials", "thoughts"}

SeriesOf == {Undefined} \cup {Obj([name |-> "nextjs", part |-> n]) : n \in 1..2}

\* The validated frontmatter of a post file; title, description, image and
\* body play no part in the functions below and are left out.
Frontmatter(date, tags, category, draft, series) ==
    [date |-> date, tags |-> tags, category |-> category, draft |-> draft,
     series |-> series]

\* The elements of a set of numbers in ascending order.
Ordered(S) ==
    [i \in 1..Cardinality(S) |->
        CHOOSE k \in S : Cardinality({j \in S : j < k}) = i - 1]

\* The content directory (BLOG_DIR) that holds the picked ones of the given
\* places, in the order readdir lists them. A place is an entry of BLOG_DIR
\* and, when the entry is a directory, a file in it; data gives each picked
\* place the frontmatter of its file.
Tree(places, data) ==
    LET picked == DOMAIN data
        heads == Ordered({k \in picked : \A j \in picked :
                             places[j].year = places[k].year => k <= j})
        filesOf(year) ==
            LET at == Ordered({k \in picked : /\ places[k].year = year
                                              /\ places[k].isDirectory})
            IN [i \in DOMAIN at |-> [name |-> places[at[i]].file,
                                     data |-> data[at[i]]]]
    IN [i \in DOMAIN heads |->
           [name |-> places[heads[i]].year,
            isDirectory |-> places[heads[i]].isDirectory,
            files |-> filesOf(places[heads[i]].year)]]

\* The content directories of up to n of the given places.
Trees(places, n) ==
    LET all == UNION {places[k].datas : k \in DOMAIN places} IN
    {Tree(places, data) :
        data \in UNION {{d \in [P -> all] : \A k \in P : d[k] \in places[k].datas} :
                           P \in {Q \in SUBSET DOMAIN places : Cardinality(Q) <= n}}}

Place(year, isDirectory, file, datas) ==
    [year |-> year, isDirectory |-> isDirectory, file |-> file, datas |-> datas]

\* No loader function called.
NoTask ==
    [pc |-> "idle", years |-> <<>>, y |-> 0, slugs |-> <<>>, s |-> 0,
     found |-> <<>>, f |-> 0, posts |-> <<>>]

\* A content directory, no loader function called, nothing written.
Blog(dir) ==
    [dir |-> dir, writes |-> 0, call |-> Undefined, task |-> NoTask,
     result |-> Undefined]

\* An empty BLOG_DIR.
NoBlog == Blog(<<>>)

\* A returned array, the rejection of the promise.
Arr(items) == [kind |-> "array", items |-> items]

Rejected(code) == [kind |-> "error", code |-> code]

\* ------------------------------------------------------------- file system
\* fs.readdir(BLOG_DIR)
readdir(dir) == [k \in DOMAIN dir |-> dir[k].name]

\* fs.stat(yearDir).isDirectory()
isDirectory(dir, year) ==
    \E k \in DOMAIN dir : dir[k].name = year /\ dir[k].isDirectory

\* fs.readdir(yearDir)
readdirYear(dir, year) ==
    LET e == dir[CHOOSE k \in DOMAIN dir : dir[k].name = year]
    IN [k \in DOMAIN e.files |-> e.files[k].name]

\* Whether fs.access(path.join(BLOG_DIR, year, file)) resolves.
access(dir, year, file) ==
    \E k \in DOMAIN dir :
        /\ dir[k].name = year
        /\ dir[k].isDirectory
        /\ \E i \in DOMAIN dir[k].files : dir[k].files[i].name = file

\* The frontmatter fs.readFile and matter get from a file that exists.
readFile(dir, year, file) ==
    LET e == dir[CHOOSE k \in DOMAIN dir : dir[k].name = year]
    IN e.files[CHOOSE i \in DOMAIN e.files : e.files[i].name = file].data

\* ------------------------------------------------------ loader, pure parts
\* new Date(date).getTime() of a YYYY-MM-DD date, counted in days.
getTime(date) ==
    CASE date = "2025-01-15" -> 20103
      [] date = "2025-02-01" -> 20120

includes(list, x) == \E k \in DOMAIN list : list[k] = x

\* Array.prototype.sort (stable) with the comparator (a, b) => key(a) - key(b),
\* keys[k] being the key of items[k].
sort(items, keys) ==
    LET n == Len(items)
        rank(i) == 1 + Cardinality({j \in 1..n :
                          keys[j] < keys[i] \/ (keys[j] = keys[i] /\ j < i)})
    IN [k \in 1..n |-> items[CHOOSE i \in 1..n : rank(i) = k]]

\* Array.prototype.slice(0, end).
slice(items, end) ==
    LET n == Len(items)
        e == IF end < 0 THEN (IF n + end < 0 THEN 0 ELSE n + end)
             ELSE (IF end > n THEN n ELSE end)
    IN SubSeq(items, 1, e)

\* The index of the next year of a for-of loop over `years` that does not
\* start with "_", from index `from` on; Len(years) + 1 when there is none.
nextYear(years, from) ==
    LET ok == {k \in from..Len(years) : ~startsWith(years[k], "_")} IN
    IF ok = {} THEN Len(years) + 1 ELSE CHOOSE k \in ok : \A j \in ok : k <= j

\* getAllPostSlugs: the slugs pushed for the files of one year directory.
slugsOf(files) ==
    LET mdx == SelectSeq(files, LAMBDA file : endsWith(file, ".mdx"))
    IN [k \in DOMAIN mdx |-> replace(mdx[k], ".mdx")]

\* getPostPreview: the preview returned for a slug and the frontmatter read.
getPostPreview(slug, validated) ==
    [slug |-> slug, date |-> validated.date, tags |-> validated.tags,
     category |-> validated.category, draft |-> validated.draft]

NoOptions ==
    [limit |-> Undefined, tag |-> Undefined, category |-> Undefined,
     includeDrafts |-> Undefined]

\* getAllPosts: whether the loop pushes a loaded preview.
pushes(post, options) ==
    LET includeDrafts == IF options.includeDrafts.kind = "undefined"
                         THEN FALSE ELSE options.includeDrafts.value
    IN /\ ~(post.draft /\ ~includeDrafts)
       /\ ~(truthy(options.tag) /\ ~includes(post.tags, options.tag.value))
       /\ ~(truthy(options.category) /\ post.category # options.category.value)

\* getAllPosts after its loop: the pushed previews sorted and cut.
getAllPosts(posts, options) ==
    LET sorted == sort(posts, [k \in DOMAIN posts |-> 0 - getTime(posts[k].date)])
    IN IF truthy(options.limit) THEN slice(sorted, options.limit.value) ELSE sorted

\* Number of a post's tags that are in the given tag list.
score(post, tags) ==
    Len(SelectSeq(post.tags, LAMBDA tag : includes(tags, tag)))

\* The current post left among the candidates.
getRelatedPostsKeepsCurrent(posts, currentSlug, tags, limit) ==
    LET scored == SelectSeq(posts, LAMBDA post : score(post, tags) > 0)
        sorted == sort(scored, [k \in DOMAIN scored |-> 0 - score(scored[k], tags)])
    IN slice(sorted, IF limit.kind = "undefined" THEN 3 ELSE limit.value)

\* getRelatedPosts(currentSlug, tags, limit = 3) after its await, `posts`
\* being what getAllPosts() returned.
getRelatedPosts(posts, currentSlug, tags, limit) ==
    LET others == SelectSeq(posts, LAMBDA post : post.slug # currentSlug)
        scored == SelectSeq(others, LAMBDA post : score(post, tags) > 0)
        sorted == sort(scored, [k \in DOMAIN scored |-> 0 - score(scored[k], tags)])
    IN slice(sorted, IF limit.kind = "undefined" THEN 3 ELSE limit.value)

\* p.series?.name of a post or of a preview.
seriesName(p) ==
    IF "series" \in DOMAIN p /\ p.series.kind = "object"
    THEN Str(p.series.fields.name) ELSE Undefined

\* p.series?.part ?? 0 of a post or of a preview.
seriesPart(p) ==
    IF "series" \in DOMAIN p /\ p.series.kind = "object"
    THEN p.series.fields.part ELSE 0

\* getSeriesInfo(post) after its await, allPosts being what getAllPosts()
\* returned.
getSeriesInfo(allPosts, post) ==
    LET inSeries == SelectSeq(allPosts, LAMBDA p : seriesName(p) = seriesName(post))
        seriesPosts == sort(inSeries, [k \in DOMAIN inSeries |-> seriesPart(inSeries[k])])
        at == {k \in DOMAIN seriesPosts : seriesPosts[k].slug = post.slug}
        currentIndex == IF at = {} THEN 0 - 1
                        ELSE (CHOOSE k \in at : \A j \in at : k <= j) - 1
    IN Obj([name |-> post.series.fields.name,
            posts |-> seriesPosts,
            currentIndex |-> currentIndex,
            previous |-> IF currentIndex > 0
                         THEN Obj(seriesPosts[currentIndex]) ELSE Undefined,
            next |-> IF currentIndex < Len(seriesPosts) - 1
                     THEN Obj(seriesPosts[currentIndex + 2]) ELSE Undefined])

\* The options of the getAllPosts call a loader function makes.
optionsOf(call) == IF call.fn = "getAllPosts" THEN call.options ELSE NoOptions

\* What the called function returns once its getAllPosts has `posts` pushed.
returns(call, posts) ==
    LET all == getAllPosts(posts, optionsOf(call)) IN
    CASE call.fn = "getAllPosts" -> Arr(all)
      [] call.fn = "getRelatedPosts" ->
            Arr(getRelatedPosts(all, call.currentSlug, call.tags, call.limit))
      [] call.fn = "getSeriesInfo" -> getSeriesInfo(all, call.post)

\* The loop of getAllPosts at its s-th slug with `posts` pushed: the next
\* getPostPreview is called, or the loop is over and the function returns.
loop(b, slugs, s, posts) ==
    IF s <= Len(slugs)
    THEN [b EXCEPT !.task.pc = "find.readdir", !.task.slugs = slugs,
                   !.task.s = s, !.task.posts = posts,
                   !.task.found = <<>>, !.task.f = 0]
    ELSE [b EXCEPT !.task.pc = "done", !.task.slugs = slugs, !.task.s = s,
                   !.task.posts = posts, !.task.found = <<>>, !.task.f = 0,
                   !.result = returns(b.call, posts)]

\* The loop of getAllPostSlugs from the y-th year on with `slugs` pushed: the
\* next year directory is examined, or the slugs are returned to getAllPosts.
listing(b, years, y, slugs) ==
    LET k == nextYear(years, y) IN
    IF k <= Len(years)
    THEN [b EXCEPT !.task.pc = "slugs.stat", !.task.years = years,
                   !.task.y = k, !.task.slugs = slugs]
    ELSE loop([b EXCEPT !.task.years = years, !.task.y = k], slugs, 1, <<>>)

\* The loop of findPostFile from the f-th year on: the next path is tried,
\* or null is returned and getAllPosts skips the slug.
finding(b, found, f) ==
    LET k == nextYear(found, f) IN
    IF k <= Len(found)
    THEN [b EXCEPT !.task.pc = "find.access", !.task.found = found, !.task.f = k]
    ELSE loop(b, b.task.slugs, b.task.s + 1, b.task.posts)

\* --------------------------------------------------- loader, calls and steps
\* A loader function is called: it runs up to the first await, the
\* fs.readdir(BLOG_DIR) of getAllPostSlugs.
Enter(call) ==
    /\ blog.task.pc \in {"idle", "done", "rejected"}
    /\ blog' = [blog EXCEPT !.call = call,
                            !.task = [NoTask EXCEPT !.pc = "slugs.readdir"],
                            !.result = Undefined]
    /\ UNCHANGED <<storage, invs, events, delivered, runs, visits, page>>

\* A call of getAllPosts.
GetAllPosts(options) ==
    Enter([kind |-> "call", fn |-> "getAllPosts", options |-> options])

\* A call of getRelatedPosts.
GetRelatedPosts(currentSlug, tags, limit) ==
    Enter([kind |-> "call", fn |-> "getRelatedPosts",
           currentSlug |-> currentSlug, tags |-> tags, limit |-> limit])

\* A call of getSeriesInfo: null at once for a post without a series.
GetSeriesInfo(post) ==
    IF post.series.kind = "undefined"
    THEN /\ blog.task.pc \in {"idle", "done", "rejected"}
         /\ blog' = [blog EXCEPT
                       !.call = [kind |-> "call", fn |-> "getSeriesInfo",
                                 post |-> post],
                       !.task = [NoTask EXCEPT !.pc = "done"],
                       !.result = [kind |-> "null"]]
         /\ UNCHANGED <<storage, invs, events, delivered, runs, visits, page>>
    ELSE Enter([kind |-> "call", fn |-> "getSeriesInfo", post |-> post])

\* getAllPostSlugs: fs.readdir(BLOG_DIR) resolves.
SlugsReaddir ==
    /\ blog.task.pc = "slugs.readdir"
    /\ blog' = listing(blog, readdir(blog.dir), 1, <<>>)
    /\ UNCHANGED <<storage, invs, events, delivered, runs, visits, page>>

\* getAllPostSlugs: fs.stat(yearDir) resolves.
SlugsStat ==
    /\ blog.task.pc = "slugs.stat"
    /\ blog' = IF isDirectory(blog.dir, blog.task.years[blog.task.y])
               THEN [blog EXCEPT !.task.pc = "slugs.readdirYear"]
               ELSE listing(blog, blog.task.years, blog.task.y + 1,
                            blog.task.slugs)
    /\ UNCHANGED <<storage, invs, events, delivered, runs, visits, page>>

\* getAllPostSlugs: fs.readdir(yearDir) resolves.
SlugsReaddirYear ==
    /\ blog.task.pc = "slugs.readdirYear"
    /\ blog' = listing(blog, blog.task.years, blog.task.y + 1,
                       blog.task.slugs \o
                       slugsOf(readdirYear(blog.dir, blog.task.years[blog.task.y])))
    /\ UNCHANGED <<storage, invs, events, delivered, runs, visits, page>>

\* findPostFile: fs.readdir(BLOG_DIR) resolves.
FindReaddir ==
    /\ blog.task.pc = "find.readdir"
    /\ blog' = finding(blog, readdir(blog.dir), 1)
    /\ UNCHANGED <<storage, invs, events, delivered, runs, visits, page>>

\* findPostFile: fs.access(filePath) settles; the path is returned when it
\* resolves, the next year is tried when it rejects.
FindAccess ==
    /\ blog.task.pc = "find.access"
    /\ blog' = IF access(blog.dir, blog.task.found[blog.task.f],
                         mdxOf(blog.task.slugs[blog.task.s]))
               THEN [blog EXCEPT !.task.pc = "preview.readFile"]
               ELSE finding(blog, blog.task.found, blog.task.f + 1)
    /\ UNCHANGED <<storage, invs, events, delivered, runs, visits, page>>

\* getPostPreview: fs.readFile(filePath) settles. A file that is gone makes
\* it reject, and with it the loader function; otherwise the preview is
\* built and getAllPosts filters it.
PreviewReadFile ==
    /\ blog.task.pc = "preview.readFile"
    /\ LET slug == blog.task.slugs[blog.task.s]
           year == blog.task.found[blog.task.f]
       IN blog' =
            IF ~access(blog.dir, year, mdxOf(slug))
            THEN [blog EXCEPT !.task.pc = "rejected",
                              !.result = Rejected("ENOENT")]
            ELSE LET post == getPostPreview(slug, readFile(blog.dir, year, mdxOf(slug)))
                 IN loop(blog, blog.task.slugs, blog.task.s + 1,
                         IF pushes(post, optionsOf(blog.call))
                         THEN Append(blog.task.posts, post)
                         ELSE blog.task.posts)
    /\ UNCHANGED <<storage, invs, events, delivered, runs, visits, page>>

\* A step of the loader function that is running.
LoaderStep ==
    \/ SlugsReaddir
    \/ SlugsStat
    \/ SlugsReaddirYear
    \/ FindReaddir
    \/ FindAccess
    \/ PreviewReadFile

\* The files of the content directory: <<k, i>> is the i-th file of the
\* k-th entry.
FilesOf(dir) ==
    UNION {{<<k, i>> : i \in DOMAIN dir[k].files} : k \in DOMAIN dir}

\* Someone rewrites a post file while a loader function is running.
WriteFile(k, i, data) ==
    /\ blog.task.pc \notin {"idle", "done", "rejected"}
    /\ blog.writes < MaxWrites
    /\ blog.dir[k].files[i].data # data
    /\ blog' = [blog EXCEPT !.dir[k].files[i].data = data, !.writes = @ + 1]
    /\ UNCHANGED <<storage, invs, events, delivered, runs, visits, page>>

\* Someone removes a post file while a loader function is running.
RemoveFile(k, i) ==
    /\ blog.task.pc \notin {"idle", "done", "rejected"}
    /\ blog.writes < MaxWrites
    /\ blog' = [blog EXCEPT
                  !.dir[k].files = SubSeq(@, 1, i - 1) \o SubSeq(@, i + 1, Len(@)),
                  !.writes = @ + 1]
    /\ UNCHANGED <<storage, invs, events, delivered, runs, visits, page>>

\* ------------------------------------------------------------ specification
\* The tables the workflow storage may hold at the start.
Tables ==
    {s \in UNION {[1..n -> WorkflowIds] : n \in 0..MaxStore} :
        \A a, b \in DOMAIN s : a # b => s[a] # s[b]}

\* No request made, no event sent, no page visited.
Quiet ==
    /\ invs = <<>>
    /\ events = <<>>
    /\ delivered = {}
    /\ runs = <<>>
    /\ visits = <<>>
    /\ page = Unmounted

Y2024 == <<"2024">>

Y2025 == <<"2025">>

Mdx(base) == <<base, ".mdx">>

\* Frontmatters of the posts getAllPosts is called on.
LoaderDatas ==
    {Frontmatter(date, pair[1], pair[2], FALSE, Undefined) :
        date \in Dates,
        pair \in {<< <<"typescript">>, "tutorials" >>,
                  << <<"typescript", "react">>, "tutorials" >>,
                  << <<"typescript", "react">>, "thoughts" >>}}
    \cup {Frontmatter("2025-02-01", <<"typescript", "react">>, "tutorials",
                      TRUE, Undefined)}

Plain == Frontmatter("2025-01-15", <<"typescript">>, "tutorials", FALSE, Undefined)

\* Two year directories with a post of the same file name in each, a file
\* name that holds ".mdx" twice, a file that is no post, an entry of
\* BLOG_DIR that is no directory and a directory that is skipped.
LoaderPlaces ==
    << Place(Y2024, TRUE, Mdx("intro"), LoaderDatas),
       Place(Y2025, TRUE, <<"a", ".mdx", ".b", ".mdx">>, {Plain}),
       Place(Y2025, TRUE, Mdx("intro"), LoaderDatas),
       Place(Y2025, TRUE, <<"notes", ".txt">>, {Plain}),
       Place(Y2025, TRUE, Mdx("post-1"), LoaderDatas),
       Place(<<"README", ".md">>, FALSE, <<>>, {Plain}),
       Place(<<"_", "drafts">>, TRUE, Mdx("wip"), {Plain}) >>

RelatedDatas ==
    {Frontmatter("2025-01-15", tags, "tutorials", FALSE, Undefined) :
        tags \in TagLists}

RelatedPlaces ==
    << Place(Y2024, TRUE, Mdx("post-1"), RelatedDatas),
       Place(Y2025, TRUE, Mdx("post-1"), RelatedDatas),
       Place(Y2025, TRUE, Mdx("post-2"), RelatedDatas),
       Place(Y2025, TRUE, Mdx("post-3"), RelatedDatas),
       Place(Y2025, TRUE, Mdx("post-4"), RelatedDatas) >>

SeriesDatas ==
    {Frontmatter(date, <<"react">>, "tutorials", draft, series) :
        date \in Dates, draft \in BOOLEAN, series \in SeriesOf}

SeriesPlaces ==
    << Place(Y2025, TRUE, Mdx("post-1"), SeriesDatas),
       Place(Y2025, TRUE, Mdx("post-2"), SeriesDatas),
       Place(Y2025, TRUE, Mdx("post-3"), SeriesDatas) >>

\* The posts getSeriesInfo is called with; it reads their slug and series.
BlogPosts == [slug : {<<"post-1">>, <<"post-2">>}, series : SeriesOf]

RaceDatas ==
    {Frontmatter("2025-01-15", <<"typescript">>, "tutorials", FALSE, Undefined),
     Frontmatter("2025-02-01", <<"react">>, "thoughts", FALSE, Undefined)}

RacePlaces ==
    << Place(Y2025, TRUE, Mdx("post-1"), RaceDatas),
       Place(Y2025, TRUE, Mdx("post-2"), RaceDatas) >>

\* The content directories of the model.
Directories ==
    {<<>>} \cup Trees(LoaderPlaces, MaxPosts) \cup Trees(RelatedPlaces, MaxRelated)
           \cup Trees(SeriesPlaces, MaxPosts) \cup Trees(RacePlaces, MaxPosts)

Limits == {Undefined} \cup {Num(n) : n \in 0..MaxLimit}

Init ==
    /\ storage \in Tables
    /\ Quiet
    /\ \E dir \in Directories : blog = Blog(dir)

\* The router and the pages start with any table; the content directory
\* plays no part in them.
RouterInit ==
    /\ storage \in Tables
    /\ Quiet
    /\ blog = NoBlog

\* The RPC router alone: every procedure, every caller.
NextRouter ==
    \/ \E proc \in Procedures, caller \in Callers : Invoke(proc, caller)
    \/ \E i \in DOMAIN invs : ReadResolves(i)
    \/ \E i \in DOMAIN invs : ReadThrows(i)
    \/ \E i \in DOMAIN invs : SendResolves(i)
    \/ \E i \in DOMAIN invs : SendThrows(i)
    \/ \E i \in DOMAIN invs : Return(i)

RouterSpec == RouterInit /\ [][NextRouter]_vars

\* The publish path end to end: createWorkflow called with a session,
\* "execute/ai" events arriving at the dispatcher, and the runs of the
\* background function. The mutations called and the events that arrive
\* are MaxTriggers + 1 at most, the runs started MaxRuns.
NextPipeline ==
    \/ /\ Len(invs) + Cardinality(Arrived) <= MaxTriggers
       /\ Invoke("createWorkflow", "alice")
    \/ /\ Len(invs) + Cardinality(Arrived) <= MaxTriggers
       /\ EventArrives("execute/ai")
    \/ \E i \in DOMAIN invs : SendResolves(i)
    \/ \E i \in DOMAIN invs : SendThrows(i)
    \/ \E i \in DOMAIN invs : Return(i)
    \/ \E e \in DOMAIN events : Deliver(e)
    \/ \E r \in DOMAIN runs : StepCall(r)
    \/ \E r \in DOMAIN runs, a \in Answers : StepSucceeds(r, a)
    \/ \E r \in DOMAIN runs : StepRetry(r)
    \/ \E r \in DOMAIN runs : StepGivesUp(r)
    \/ \E r \in DOMAIN runs : ExecuteReturns(r)

PipelineInit == RouterInit /\ storage = <<>>

PipelineSpec == PipelineInit /\ [][NextPipeline]_vars

\* The RPC server settles every awaited promise and runs every continuation;
\* the dispatcher delivers every event that has a function registered for it;
\* the runtime drives every started run to its end.
Fairness ==
    /\ WF_vars(\E i \in DOMAIN invs :
                  SendResolves(i) \/ SendThrows(i) \/ Return(i))
    /\ \A e \in 1..(MaxTriggers + 1) :
          WF_vars(e \in DOMAIN events /\ Deliver(e))
    /\ \A r \in 1..MaxRuns :
          WF_vars(r \in DOMAIN runs /\
                  (StepCall(r) \/ ExecuteReturns(r) \/ StepRetry(r)
                   \/ StepGivesUp(r) \/ \E a \in Answers : StepSucceeds(r, a)))

FairPipelineSpec == PipelineSpec /\ Fairness

\* The page routes: every page, every visitor.
NextRoutes ==
    \/ \E pg \in Pages, visitor \in Callers : Visit(pg, visitor)
    \/ \E v \in DOMAIN visits : GuardRedirects(v)
    \/ \E v \in DOMAIN visits : GuardPasses(v)
    \/ \E v \in DOMAIN visits : Render(v)

RoutesSpec == PipelineInit /\ [][NextRoutes]_vars

\* The workflow page requested once and mounted in one browser, with the
\* router behind it. MaxClicks bounds the mutations started from the page.
NextPage ==
    \/ /\ visits = <<>>
       /\ \E visitor \in {"anon", "alice"} : Visit("workflows", visitor)
    \/ \E v \in DOMAIN visits : Render(v)
    \/ \E v \in DOMAIN visits : Mount(v)
    \/ QueryRequest
    \/ \E i \in DOMAIN invs : ReadResolves(i)
    \/ \E i \in DOMAIN invs : ReadThrows(i)
    \/ QuerySettles
    \/ \E button \in Buttons : Click(button)
    \/ Rerender
    \/ \E m \in DOMAIN page.mutations : MutationRequest(m)
    \/ \E i \in DOMAIN invs : SendResolves(i)
    \/ \E i \in DOMAIN invs : SendThrows(i)
    \/ \E i \in DOMAIN invs : Return(i)
    \/ \E m \in DOMAIN page.mutations : Settle(m)

PageSpec == PipelineInit /\ [][NextPage]_vars

\* Reads of storage around the publish path: one client with a session that
\* requests the procedures one after the other, each request made when the
\* one before it has ended; "execute/ai" events arriving between the
\* requests; the dispatcher and the runs of the background function, each
\* provider call answered once or given up. The requests and the arriving
\* events are MaxCalls + 1 at most.
NextFrame ==
    \/ /\ Len(invs) + Cardinality(Arrived) <= MaxCalls
       /\ \A i \in DOMAIN invs : invs[i].pc = "done"
       /\ \E proc \in Procedures : Call(proc, "alice")
       /\ UNCHANGED <<storage, events, delivered, runs, visits, page, blog>>
    \/ \E i \in DOMAIN invs : ReadResolves(i)
    \/ \E i \in DOMAIN invs : ReadThrows(i)
    \/ \E i \in DOMAIN invs : SendResolves(i)
    \/ \E i \in DOMAIN invs : SendThrows(i)
    \/ \E i \in DOMAIN invs : Return(i)
    \/ /\ Len(invs) + Cardinality(Arrived) <= MaxCalls
       /\ \A i \in DOMAIN invs : invs[i].pc = "done"
       /\ EventArrives("execute/ai")
    \/ \E e \in DOMAIN events : Deliver(e)
    \/ \E r \in DOMAIN runs : StepCall(r)
    \/ \E r \in DOMAIN runs : StepSucceeds(r, "29")
    \/ \E r \in DOMAIN runs : StepGivesUp(r)
    \/ \E r \in DOMAIN runs : ExecuteReturns(r)

FrameInit == RouterInit /\ Len(storage) = MaxStore

FrameSpec == FrameInit /\ [][NextFrame]_vars

\* Nothing but the content directory.
Idle ==
    /\ storage = <<>>
    /\ Quiet

\* getAllPosts over every content directory of up to MaxPosts of the places
\* of LoaderPlaces.
LoaderInit ==
    /\ Idle
    /\ \E dir \in Trees(LoaderPlaces, MaxPosts) : blog = Blog(dir)

\* One call on a content directory that no one writes in the meantime.
NextLoader ==
    \/ /\ blog.call.kind = "undefined"
       /\ \E limit \in Limits,
             tag \in {Undefined, Str("react")},
             category \in {Undefined, Str("tutorials")},
             includeDrafts \in {Undefined, Bool(TRUE)} :
              GetAllPosts([limit |-> limit, tag |-> tag, category |-> category,
                           includeDrafts |-> includeDrafts])
    \/ LoaderStep

LoaderSpec == LoaderInit /\ [][NextLoader]_vars

\* getRelatedPosts over every content directory of up to MaxRelated of the
\* places of RelatedPlaces.
RelatedInit ==
    /\ Idle
    /\ \E dir \in Trees(RelatedPlaces, MaxRelated) : blog = Blog(dir)

NextRelated ==
    \/ /\ blog.call.kind = "undefined"
       /\ \E currentSlug \in {<<"post-1">>, <<"not-a-post">>},
             tags \in {<<"typescript", "react">>, <<"react">>, <<>>},
             limit \in Limits :
              GetRelatedPosts(currentSlug, tags, limit)
    \/ LoaderStep

RelatedSpec == RelatedInit /\ [][NextRelated]_vars

\* getSeriesInfo over every content directory of up to MaxPosts of the
\* places of SeriesPlaces.
SeriesInit ==
    /\ Idle
    /\ \E dir \in Trees(SeriesPlaces, MaxPosts) : blog = Blog(dir)

NextSeries ==
    \/ /\ blog.call.kind = "undefined"
       /\ \E post \in BlogPosts : GetSeriesInfo(post)
    \/ LoaderStep

SeriesSpec == SeriesInit /\ [][NextSeries]_vars

\* A loader function running while post files are rewritten and removed.
RaceInit ==
    /\ Idle
    /\ \E dir \in Trees(RacePlaces, MaxPosts) : blog = Blog(dir)

NextRace ==
    \/ /\ blog.call.kind = "undefined"
       /\ GetAllPosts(NoOptions)
    \/ /\ blog.call.kind = "undefined"
       /\ \E tags \in TagLists : GetRelatedPosts(<<"post-1">>, tags, Undefined)
    \/ LoaderStep
    \/ \E p \in FilesOf(blog.dir), data \in RaceDatas : WriteFile(p[1], p[2], data)
    \/ \E p \in FilesOf(blog.dir) : RemoveFile(p[1], p[2])

RaceSpec == RaceInit /\ [][NextRace]_vars

\* Everything together.
Next ==
    \/ NextRouter
    \/ /\ Cardinality(Arrived) < MaxTriggers
       /\ \E name \in {"execute/ai", "test/hello.world"} : EventArrives(name)
    \/ \E e \in DOMAIN events : Deliver(e)
    \/ \E r \in DOMAIN runs : StepCall(r)
    \/ \E r \in DOMAIN runs, a \in Answers : StepSucceeds(r, a)
    \/ \E r \in DOMAIN runs : StepRetry(r)
    \/ \E r \in DOMAIN runs : StepGivesUp(r)
    \/ \E r \in DOMAIN runs : ExecuteReturns(r)
    \/ NextRoutes
    \/ \E v \in DOMAIN visits : Mount(v)
    \/ QueryRequest
    \/ QuerySettles
    \/ \E button \in Buttons : Click(button)
    \/ Rerender
    \/ \E m \in DOMAIN page.mutations : MutationRequest(m)
    \/ \E m \in DOMAIN page.mutations : Settle(m)
    \/ \E limit \in Limits,
          tag \in {Undefined, Str("react")},
          category \in {Undefined, Str("tutorials")},
          includeDrafts \in {Undefined, Bool(TRUE)} :
           GetAllPosts([limit |-> limit, tag |-> tag, category |-> category,
                        includeDrafts |-> includeDrafts])
    \/ \E currentSlug \in {<<"post-1">>, <<"not-a-post">>},
          tags \in TagLists \cup {<<>>},
          limit \in Limits :
           GetRelatedPosts(currentSlug, tags, limit)
    \/ \E post \in BlogPosts : GetSeriesInfo(post)
    \/ LoaderStep
    \/ \E p \in FilesOf(blog.dir), data \in LoaderDatas \cup RelatedDatas \cup SeriesDatas :
           WriteFile(p[1], p[2], data)
    \/ \E p \in FilesOf(blog.dir) : RemoveFile(p[1], p[2])

Spec == Init /\ [][Next]_vars

\* ================================================================== claims
EventsBy(i) == {e \in DOMAIN events : events[e].by = i}

\* Events that appRouter has published.
Published == {e \in DOMAIN events : events[e].by \in DOMAIN invs}

Providers == {executeSteps[k].provider : k \in 1..NumSteps}

\* C1: a createWorkflow invocation made with a session whose publish call
\* resolved ends by returning exactly
\* { success: true, message: "Workflow creation triggered" }.
C1_CreateWorkflowReturnsSuccess ==
    \A i \in DOMAIN invs :
        (/\ invs[i].proc = "createWorkflow"
         /\ invs[i].caller # "anon"
         /\ invs[i].sendResult = "resolved"
         /\ invs[i].pc = "done")
        => /\ invs[i].outcome = "returned"
           /\ invs[i].value = [success |-> TRUE,
                               message |-> "Workflow creation triggered"]

\* C1 witness: createWorkflow has returned after an earlier invocation, with
\* rows in storage.
C1_Witness ==
    \E i \in DOMAIN invs :
        /\ i > 1
        /\ storage # <<>>
        /\ invs[i].proc = "createWorkflow"
        /\ invs[i].sendResult = "resolved"
        /\ invs[i].outcome = "returned"

\* C2: a createWorkflow invocation whose publish call threw ends in an error
\* and has no returned value: a failed publish never comes with a success
\* response.
C2_PublishFailurePropagates ==
    \A i \in DOMAIN invs :
        (invs[i].proc = "createWorkflow" /\ invs[i].sendResult = "threw")
        => /\ invs[i].pc = "done"
           /\ invs[i].outcome = "error"
           /\ invs[i].error # ""
           /\ invs[i].value = Undefined

\* C2 witness: a publish call of createWorkflow has thrown.
C2_Witness ==
    \E i \in DOMAIN invs :
        /\ invs[i].proc = "createWorkflow"
        /\ invs[i].sendResult = "threw"
        /\ invs[i].outcome = "error"

\* C3: what getWorkflows returns is the stored collection itself: the same
\* rows, each once, in storage order.
C3_GetWorkflowsReturnsStorage ==
    \A i \in DOMAIN invs :
        (invs[i].proc = "getWorkflows" /\ invs[i].outcome = "returned")
        => invs[i].value = storage

\* C3 witness: getWorkflows has returned with two rows in storage.
C3_Witness ==
    \E i \in DOMAIN invs :
        /\ invs[i].proc = "getWorkflows"
        /\ invs[i].outcome = "returned"
        /\ Len(storage) >= 2

\* C4: a getWorkflows or createWorkflow call without a session reads nothing,
\* publishes nothing and returns no value; it ends in an error.
C4_AuthenticatedOnly ==
    \A i \in DOMAIN invs :
        (invs[i].caller = "anon" /\ invs[i].proc \in {"getWorkflows", "createWorkflow"})
        => /\ invs[i].reads = 0
           /\ invs[i].sends = 0
           /\ EventsBy(i) = {}
           /\ invs[i].outcome = "error"
           /\ invs[i].value = Undefined

\* C4 witness: both procedures have been called without a session.
C4_Witness ==
    /\ \E i \in DOMAIN invs : invs[i].caller = "anon" /\ invs[i].proc = "getWorkflows"
    /\ \E i \in DOMAIN invs : invs[i].caller = "anon" /\ invs[i].proc = "createWorkflow"

\* Publish calls made by the first k invocations that are createWorkflow.
RECURSIVE PublishAttempts(_)
PublishAttempts(k) ==
    IF k = 0 THEN 0
    ELSE PublishAttempts(k - 1)
         + (IF invs[k].proc = "createWorkflow" THEN invs[k].sends ELSE 0)

\* C5: every createWorkflow invocation that got past the middleware has made
\* exactly one publish call, so n such invocations have made n; one whose
\* publish threw made no second attempt and left no event; one that returned
\* left exactly one event.
C5_ExactlyOnePublish ==
    /\ PublishAttempts(Len(invs)) =
          Cardinality({i \in DOMAIN invs : invs[i].proc = "createWorkflow"
                                           /\ invs[i].caller # "anon"})
    /\ \A i \in DOMAIN invs :
          invs[i].proc = "createWorkflow" =>
              /\ invs[i].sends = (IF invs[i].caller = "anon" THEN 0 ELSE 1)
              /\ invs[i].sendResult = "threw" => EventsBy(i) = {}
              /\ invs[i].sendResult = "none" => EventsBy(i) = {}
              /\ invs[i].outcome = "returned" => Cardinality(EventsBy(i)) = 1

\* C5 witness: one createWorkflow invocation returned and another one's
\* publish threw.
C5_Witness ==
    \E i, j \in DOMAIN invs :
        /\ invs[i].proc = "createWorkflow" /\ invs[i].outcome = "returned"
        /\ invs[j].proc = "createWorkflow" /\ invs[j].sendResult = "threw"

\* C6: createWorkflow returns only once its publish call has resolved, and
\* from then on its return waits for nothing: it is enabled whatever the
\* dispatcher and the background function have or have not done.
C6_FireAndForget ==
    \A i \in DOMAIN invs :
        invs[i].proc = "createWorkflow" =>
            /\ invs[i].outcome = "returned" =>
                  invs[i].sendResult = "resolved" /\ EventsBy(i) # {}
            /\ (invs[i].sendResult = "resolved" /\ invs[i].outcome = "pending") =>
                  ENABLED Return(i)

\* C6 witness: createWorkflow has returned success while no background work
\* has started for its event.
C6_Witness ==
    \E i \in DOMAIN invs :
        /\ invs[i].proc = "createWorkflow"
        /\ invs[i].outcome = "returned"
        /\ \A e \in EventsBy(i) :
              e \notin delivered /\ ~ \E r \in DOMAIN runs : runs[r].event = e

\* C7: every event a mutation has published is eventually handed to a
\* background function registered for its name.
C7_EveryEventDelivered ==
    \A e \in 1..(MaxTriggers + 1) :
        (e \in Published) ~> (e \in delivered)

\* C8: every event the router has sent to the dispatcher is named
\* "test/hello.world" or "execute/ai" and carries an object payload.
C8_EventContract ==
    \A e \in Published :
        /\ events[e].name \in {"test/hello.world", "execute/ai"}
        /\ events[e].data.kind = "object"

\* C8 witness: the router has sent an event, and a testAi request has
\* ended without one.
C8_Witness ==
    /\ Cardinality(Published) = 1
    /\ \E i \in DOMAIN invs :
          invs[i].proc = "testAi" /\ invs[i].pc = "done" /\ EventsBy(i) = {}

\* C9: a run whose three provider calls all succeeded is not failed, and
\* once completed its result has exactly the keys geminiSteps, openaiSteps
\* and anthropicSteps, each holding the steps of its own provider's response.
C9_AggregateOfThree ==
    \A r \in DOMAIN runs :
        /\ DOMAIN runs[r].responses = Providers => runs[r].status # "failed"
        /\ runs[r].status = "completed" =>
              /\ DOMAIN runs[r].responses = Providers
              /\ DOMAIN runs[r].result =
                    {"geminiSteps", "openaiSteps", "anthropicSteps"}
              /\ runs[r].result.geminiSteps = runs[r].responses["google"]
              /\ runs[r].result.openaiSteps = runs[r].responses["openai"]
              /\ runs[r].result.anthropicSteps = runs[r].responses["anthropic"]

\* C9 witness: a run has completed.
C9_Witness ==
    \E r \in DOMAIN runs :
        runs[r].status = "completed" /\ DOMAIN runs[r].responses = Providers

RunHasAggregate(r) ==
    /\ runs[r].status = "completed"
    /\ DOMAIN runs[r].result = {"geminiSteps", "openaiSteps", "anthropicSteps"}

\* C10: a run in which a provider call failed and the runtime gave the step
\* up never has the aggregate as its result; every started run that the
\* runtime does not give up eventually returns the aggregate of three groups.
C10_FailureOrAggregate ==
    /\ [](\A r \in DOMAIN runs :
            runs[r].gaveUp => /\ runs[r].status = "failed"
                              /\ runs[r].result = Undefined)
    /\ \A r \in 1..MaxRuns :
          (r \in DOMAIN runs) ~>
              (r \in DOMAIN runs /\ (RunHasAggregate(r) \/ runs[r].gaveUp))

\* C10 witness: a step was given up after an earlier step had succeeded.
C10_Witness ==
    \E r \in DOMAIN runs :
        /\ runs[r].gaveUp
        /\ runs[r].memo # <<>>
        /\ runs[r].result = Undefined

\* C11: on the login page and on the register page the form is produced only
\* after requireUnauth has run to its end, and never for a visitor with a
\* session: such a visitor ends redirected.
C11_UnauthGuardFirst ==
    \A v \in DOMAIN visits :
        visits[v].page \in {"login", "register"} =>
            /\ visits[v].output \in {"LoginForm", "RegisterForm"} =>
                  visits[v].guardDone /\ visits[v].visitor = "anon"
            /\ visits[v].visitor # "anon" =>
                  /\ visits[v].output \in {"none", "redirect"}
                  /\ visits[v].pc = "done" => visits[v].output = "redirect"

\* C11 witness: a visitor with a session has been redirected from the login
\* page and another from the register page.
C11_Witness ==
    \E v, w \in DOMAIN visits :
        /\ visits[v].page = "login" /\ visits[v].visitor # "anon"
        /\ visits[v].output = "redirect"
        /\ visits[w].page = "register" /\ visits[w].visitor # "anon"
        /\ visits[w].output = "redirect"

\* C12: a visitor without a session never gets the workflow page rendered.
C12_ProtectedPageRedirects ==
    \A v \in DOMAIN visits :
        (visits[v].page = "workflows" /\ visits[v].visitor = "anon")
        => visits[v].output # "WorkflowPage"

\* C13: a getWorkflows invocation whose storage read threw ends in an error,
\* holds no list in place of it, and has read storage once only.
C13_ReadFailurePropagates ==
    \A i \in DOMAIN invs :
        (invs[i].proc = "getWorkflows" /\ invs[i].readResult = "threw")
        => /\ invs[i].pc = "done"
           /\ invs[i].outcome = "error"
           /\ invs[i].error # ""
           /\ invs[i].value = Undefined
           /\ invs[i].reads = 1

\* C13 witness: a storage read has thrown with rows in storage.
C13_Witness ==
    \E i \in DOMAIN invs :
        /\ invs[i].proc = "getWorkflows"
        /\ invs[i].readResult = "threw"
        /\ storage # <<>>

\* Position of a call's arguments among the calls of `execute`.
StepIndex(args) == CHOOSE k \in 1..NumSteps : executeSteps[k] = args

\* C14: in a run a provider call is started only when every call before it
\* in the order gemini, openai, anthropic has completed; calls are made in
\* that order and at most one call has been started and not completed.
C14_SequentialCalls ==
    \A r \in DOMAIN runs :
        LET c == runs[r].calls IN
        /\ \A a \in DOMAIN c :
              \A j \in 1..(StepIndex(c[a]) - 1) :
                  executeSteps[j].provider \in DOMAIN runs[r].responses
        /\ \A a, b \in DOMAIN c : a < b => StepIndex(c[a]) < StepIndex(c[b])
        /\ Cardinality({a \in DOMAIN c :
                          c[a].provider \notin DOMAIN runs[r].responses}) <= 1
        /\ runs[r].phase = "inflight" =>
              c # <<>> /\ c[Len(c)] = executeSteps[runs[r].pc]

\* C14 witness: the anthropic call is in flight after the other two calls.
C14_Witness ==
    \E r \in DOMAIN runs :
        /\ runs[r].phase = "inflight"
        /\ Len(runs[r].calls) = 3
        /\ runs[r].calls[3].provider = "anthropic"

\* C15: once a provider call has failed for good the run is failed: no later
\* call has been started, the results of the earlier calls are still
\* recorded, and the run never changes again.
C15_FailureAborts ==
    /\ [](\A r \in DOMAIN runs :
            runs[r].gaveUp =>
                /\ runs[r].status = "failed"
                /\ runs[r].calls # <<>>
                /\ runs[r].calls[Len(runs[r].calls)] = executeSteps[runs[r].pc]
                /\ \A j \in 1..NumSteps :
                      /\ j >= runs[r].pc =>
                            executeSteps[j].provider \notin DOMAIN runs[r].responses
                      /\ j > runs[r].pc =>
                            \A a \in DOMAIN runs[r].calls :
                                runs[r].calls[a] # executeSteps[j]
                      /\ j < runs[r].pc =>
                            executeSteps[j].name \in DOMAIN runs[r].memo)
    /\ [][\A r \in DOMAIN runs :
            runs[r].status = "failed" => runs'[r] = runs[r]]_vars

\* C15 witness: the gemini call has failed for good in one run, or the
\* openai call after gemini's success.
C15_Witness ==
    \E r \in DOMAIN runs :
        /\ runs[r].gaveUp
        /\ runs[r].pc \in {1, 2}
        /\ runs[r].responses = <<>> \/ DOMAIN runs[r].responses = {"google"}

\* C16: the provider calls of a run all carry the prompt "What is 2+27?" and
\* the system instruction "You are a helpful assistant.", whatever earlier
\* calls answered, and no two of them go to the same provider and model.
C16_IndependentCalls ==
    \A r \in DOMAIN runs :
        \A a, b \in DOMAIN runs[r].calls :
            LET x == runs[r].calls[a]
                y == runs[r].calls[b]
            IN /\ x.prompt = "What is 2+27?"
               /\ x.system = "You are a helpful assistant."
               /\ x.prompt \notin Answers
               /\ a # b => <<x.provider, x.model>> # <<y.provider, y.model>>

\* C16 witness: three calls have been made in a run whose first two calls
\* were answered differently.
C16_Witness ==
    \E r \in DOMAIN runs :
        /\ Len(runs[r].calls) = 3
        /\ {"google", "openai"} \subseteq DOMAIN runs[r].responses
        /\ runs[r].responses["google"][1].text # runs[r].responses["openai"][1].text

\* C17: every run of `execute` was started by an event named "execute/ai";
\* an event of another name is never handed to it, so createWorkflow's
\* event starts no run and causes no provider call.
C17_OnlyExecuteAi ==
    /\ \A r \in DOMAIN runs : events[runs[r].event].name = "execute/ai"
    /\ \A e \in DOMAIN events :
          events[e].name # "execute/ai" =>
              /\ e \notin delivered
              /\ \A r \in DOMAIN runs : runs[r].event # e

\* C17 witness: createWorkflow's event is at the dispatcher after its
\* publish resolved, and no run exists.
C17_Witness ==
    /\ \E e \in DOMAIN events : events[e].name = "test/hello.world"
    /\ runs = <<>>
    /\ \E i \in DOMAIN invs : invs[i].pc = "done"

\* C20: in one execution of `execute` no step is invoked twice and at most
\* three calls are made; every started run ends, completed or failed.
C20_LinearAndTerminates ==
    /\ [](\A r \in DOMAIN runs :
            /\ Len(runs[r].calls) <= 3
            /\ \A a, b \in DOMAIN runs[r].calls :
                  a # b => runs[r].calls[a].name # runs[r].calls[b].name)
    /\ \A r \in 1..MaxRuns :
          (r \in DOMAIN runs) ~>
              (r \in DOMAIN runs /\ runs[r].status \in {"completed", "failed"})

\* C20 witness: a run has ended after a retried call.
C20_Witness ==
    \E r \in DOMAIN runs :
        /\ runs[r].status = "completed"
        /\ Len(runs[r].calls) < 3

CreateWorkflowEvents ==
    {e \in Published : invs[events[e].by].proc = "createWorkflow"}

\* C18: every event createWorkflow has published has the name
\* "test/hello.world" and the payload { email: "test@gmail.com" }, whoever
\* called and whatever is stored or happened before; any two of them are
\* equal and any two returned results are equal.
C18_EventIndependentOfCaller ==
    /\ \A e \in CreateWorkflowEvents :
          /\ events[e].name = "test/hello.world"
          /\ events[e].data = Obj([email |-> "test@gmail.com"])
    /\ \A e, f \in CreateWorkflowEvents :
          events[e].name = events[f].name /\ events[e].data = events[f].data
    /\ \A i, j \in DOMAIN invs :
          (/\ invs[i].proc = "createWorkflow" /\ invs[i].outcome = "returned"
           /\ invs[j].proc = "createWorkflow" /\ invs[j].outcome = "returned")
          => invs[i].value = invs[j].value

\* C18 witness: two callers have each had createWorkflow publish and return,
\* with rows in storage.
C18_Witness ==
    \E e, f \in CreateWorkflowEvents :
        /\ invs[events[e].by].caller = "alice"
        /\ invs[events[f].by].caller = "bob"
        /\ invs[events[e].by].outcome = "returned"
        /\ invs[events[f].by].outcome = "returned"
        /\ storage # <<>>

ToastsFor(m) == {t \in DOMAIN page.toasts : page.toasts[t].for = m}

\* C19: every toast on the workflow page belongs to a mutation that has
\* succeeded and carries that mutation's message; a mutation that is
\* pending or has failed has no toast, one that has succeeded has one.
C19_ToastOnlyOnSuccess ==
    /\ \A t \in DOMAIN page.toasts :
          LET m == page.mutations[page.toasts[t].for] IN
          /\ m.status = "success"
          /\ invs[m.inv].outcome = "returned"
          /\ page.toasts[t].message = successToast(m.button)
          /\ page.toasts[t].message = "Workflow creation triggered" =>
                m.button = "create"
    /\ \A m \in DOMAIN page.mutations :
          /\ page.mutations[m].status \in {"pending", "error"} => ToastsFor(m) = {}
          /\ page.mutations[m].status = "success" => Cardinality(ToastsFor(m)) = 1

\* C19 witness: one createWorkflow mutation has failed without a toast and
\* another has succeeded with its toast.
C19_Witness ==
    \E m, n \in DOMAIN page.mutations :
        /\ page.mutations[m].button = "create"
        /\ page.mutations[m].status = "error"
        /\ ToastsFor(m) = {}
        /\ page.mutations[n].button = "create"
        /\ page.mutations[n].status = "success"
        /\ ToastsFor(n) # {}

GetWorkflowsReturned ==
    {i \in DOMAIN invs : invs[i].proc = "getWorkflows" /\ invs[i].outcome = "returned"}

\* C21: no step of createWorkflow, of a request for testAi or of the background
\* function changes workflow storage, so every getWorkflows call that has
\* returned, before or after them, has returned the same collection.
C21_StorageUnchanged ==
    /\ [][storage' = storage]_vars
    /\ [](\A i, j \in GetWorkflowsReturned :
            invs[i].value = invs[j].value /\ invs[i].value = storage)

\* C21 witness: getWorkflows has returned the same stored rows before a
\* createWorkflow invocation and after it.
C21_Witness ==
    \E i, j, k \in DOMAIN invs :
        /\ i < j /\ j < k
        /\ i \in GetWorkflowsReturned
        /\ invs[j].proc = "createWorkflow" /\ invs[j].outcome = "returned"
        /\ k \in GetWorkflowsReturned
        /\ invs[i].value # <<>>
        /\ invs[k].value = invs[i].value

\* A step in which a getWorkflows invocation arrives or moves on.
GetWorkflowsStep ==
    \E i \in DOMAIN invs' :
        /\ invs'[i].proc = "getWorkflows"
        /\ i \in DOMAIN invs => invs'[i].pc # invs[i].pc

\* C22: a getWorkflows invocation makes no publish call and has no event of
\* its own; a step of getWorkflows leaves the published events and storage
\* as they were, so the events at the dispatcher are exactly those of the
\* mutations whose publish resolved, however many getWorkflows calls there
\* were in between.
C22_GetWorkflowsNoSideEffects ==
    /\ [](\A i \in DOMAIN invs :
            invs[i].proc = "getWorkflows" =>
                invs[i].sends = 0 /\ EventsBy(i) = {})
    /\ [](Cardinality(Published) =
            Cardinality({i \in DOMAIN invs : /\ invs[i].proc # "getWorkflows"
                                             /\ invs[i].sendResult = "resolved"}))
    /\ [][GetWorkflowsStep => events' = events /\ storage' = storage]_vars

\* C22 witness: getWorkflows has returned rows while the only event at the
\* dispatcher is the one of a createWorkflow call.
C22_Witness ==
    \E i, j \in DOMAIN invs :
        /\ invs[i].proc = "createWorkflow" /\ invs[i].sendResult = "resolved"
        /\ j \in GetWorkflowsReturned
        /\ invs[j].value # <<>>
        /\ Len(events) = 1

\* Invocations made by the pages: the query and the mutations of the mounted
\* workflow page and the prefetches of the page functions.
PageInvocations ==
    {i \in DOMAIN invs :
        \/ i = page.query.inv
        \/ \E m \in DOMAIN page.mutations : page.mutations[m].inv = i
        \/ \E v \in DOMAIN visits : visits[v].prefetch = i}

\* C23: every procedure a page has invoked is one that appRouter declares.
C23_FrontEndCallsDeclared ==
    \A i \in PageInvocations : invs[i].proc \in appRouterProcedures

PendingOf(button) ==
    {m \in DOMAIN page.mutations :
        page.mutations[m].button = button /\ page.mutations[m].status = "pending"}

\* C24: on the mounted workflow page each button has at most one pending
\* mutation; while its mutation is pending the button cannot be clicked,
\* whatever the other button's mutation does, and once the mutation has
\* settled, with success or with an error, it can be clicked again.
C24_ButtonDisabledWhilePending ==
    \A button \in Buttons :
        /\ Cardinality(PendingOf(button)) <= 1
        /\ PendingOf(button) # {} => ~ ENABLED Click(button)
        /\ (/\ page.visitor # "none"
            /\ PendingOf(button) = {}
            /\ Len(page.mutations) < MaxClicks) => ENABLED Click(button)

CreateWorkflowPastMiddleware ==
    {i \in DOMAIN invs : invs[i].proc = "createWorkflow" /\ invs[i].caller # "anon"}

\* C25: whatever the other createWorkflow invocations do, an invocation
\* that awaits its publish call can have it resolve and can have it throw;
\* it returns exactly when its own publish resolved and fails exactly when
\* its own publish threw; and the dispatcher holds one event for each
\* invocation whose publish resolved, none for any other.
C25_ConcurrentCreateWorkflow ==
    /\ \A i \in CreateWorkflowPastMiddleware :
          /\ invs[i].pc = "sending" =>
                ENABLED SendResolves(i) /\ ENABLED SendThrows(i)
          /\ invs[i].outcome = "returned" => invs[i].sendResult = "resolved"
          /\ invs[i].outcome = "error" => invs[i].sendResult = "threw"
          /\ invs[i].pc = "done" =>
                (invs[i].outcome = "returned" <=> invs[i].sendResult = "resolved")
          /\ Cardinality(EventsBy(i)) =
                (IF invs[i].sendResult = "resolved" THEN 1 ELSE 0)
    /\ Cardinality(CreateWorkflowEvents) =
          Cardinality({i \in CreateWorkflowPastMiddleware :
                          invs[i].sendResult = "resolved"})

\* C25 witness: two createWorkflow invocations from different callers were
\* in flight together and both publishes resolved, the later call's first:
\* the dispatcher holds both events.
C25_Witness ==
    /\ Len(events) = 2
    /\ events[1].by = 2 /\ events[2].by = 1
    /\ invs[1].proc = "createWorkflow" /\ invs[2].proc = "createWorkflow"
    /\ invs[1].caller # invs[2].caller
    /\ invs[1].outcome = "returned" /\ invs[2].outcome = "returned"

\* A step in which run r starts a provider call.
StartsCall(r) ==
    /\ r \in DOMAIN runs
    /\ runs[r].phase = "ready"
    /\ runs'[r].phase = "inflight"

\* C26: the three steps have three different names; a provider call is
\* started only for a step whose name has no recorded result, also when the
\* function is executed again after a failed call; and the three groups of
\* a completed run are the results recorded under "gemini-generate-text",
\* "openai-generate-text" and "anthropic-generate-text", each one the
\* response of its own provider.
C26_StepsRecordedByName ==
    /\ [](Cardinality({executeSteps[k].name : k \in 1..NumSteps}) = NumSteps)
    /\ [][\A r \in 1..MaxRuns :
            StartsCall(r) =>
                /\ executeSteps[runs[r].pc].name \notin DOMAIN runs[r].memo
                /\ executeSteps[runs[r].pc].provider \notin DOMAIN runs[r].responses]_vars
    /\ [](\A r \in DOMAIN runs :
            runs[r].status = "completed" =>
                /\ runs[r].result.geminiSteps = runs[r].memo["gemini-generate-text"]
                /\ runs[r].result.openaiSteps = runs[r].memo["openai-generate-text"]
                /\ runs[r].result.anthropicSteps = runs[r].memo["anthropic-generate-text"]
                /\ runs[r].result.geminiSteps[1].provider = "google"
                /\ runs[r].result.openaiSteps[1].provider = "openai"
                /\ runs[r].result.anthropicSteps[1].provider = "anthropic")

\* C26 witness: after the openai call failed the function was executed again
\* and went straight to the openai call, gemini's result being recorded.
C26_Witness ==
    \E r \in DOMAIN runs :
        /\ runs[r].retries > 0
        /\ runs[r].phase = "inflight"
        /\ DOMAIN runs[r].memo = {"gemini-generate-text"}
        /\ Len(runs[r].calls) = 1
        /\ runs[r].calls[1].name = "openai-generate-text"

\* The loader function fn has returned.
Returned(fn) ==
    /\ blog.call.kind = "call"
    /\ blog.call.fn = fn
    /\ blog.task.pc = "done"

\* The posts of the content directory: the .mdx files of the year
\* directories that are not skipped.
Posts ==
    {p \in FilesOf(blog.dir) :
        /\ ~startsWith(blog.dir[p[1]].name, "_")
        /\ endsWith(blog.dir[p[1]].files[p[2]].name, ".mdx")}

DataOf(p) == blog.dir[p[1]].files[p[2]].data

\* The slug of a post: its file name without the extension.
SlugOf(p) ==
    LET name == blog.dir[p[1]].files[p[2]].name IN SubSeq(name, 1, Len(name) - 1)

\* The preview of a post.
PreviewOf(p) ==
    [slug |-> SlugOf(p), date |-> DataOf(p).date, tags |-> DataOf(p).tags,
     category |-> DataOf(p).category, draft |-> DataOf(p).draft]

\* Posts that pass the filters of the getAllPosts call.
Passing ==
    LET o == blog.call.options IN
    {p \in Posts :
        /\ DataOf(p).draft => (o.includeDrafts.kind = "boolean" /\ o.includeDrafts.value)
        /\ o.tag.kind = "string" => includes(DataOf(p).tags, o.tag.value)
        /\ o.category.kind = "string" => DataOf(p).category = o.category.value}

\* C27: what getAllPosts returned holds only posts that pass its filters,
\* none more often than it is in the directory, newest first; without a
\* limit it holds all of them, with a limit it holds the `limit` newest of
\* them (all when there are fewer).
C27_GetAllPostsFilteredSorted ==
    Returned("getAllPosts") =>
        LET R == blog.result.items
            o == blog.call.options
            n == Cardinality(Passing)
        IN /\ \A a \in DOMAIN R :
                 /\ \E p \in Passing : R[a] = PreviewOf(p)
                 /\ Cardinality({b \in DOMAIN R : R[b] = R[a]}) <=
                       Cardinality({p \in Passing : PreviewOf(p) = R[a]})
           /\ \A a, b \in DOMAIN R :
                 a < b => getTime(R[a].date) >= getTime(R[b].date)
           /\ Len(R) = IF o.limit.kind = "number" /\ o.limit.value < n
                       THEN o.limit.value ELSE n
           /\ \A p \in Passing :
                 (\A a \in DOMAIN R : R[a] # PreviewOf(p)) =>
                     \A a \in DOMAIN R :
                         getTime(R[a].date) >= getTime(DataOf(p).date)

\* Tags a post shares with the tag list of the getRelatedPosts call.
Shared(post) ==
    {post.tags[k] : k \in DOMAIN post.tags} \cap
    {blog.call.tags[k] : k \in DOMAIN blog.call.tags}

\* C28: what getRelatedPosts returned never holds the current post, holds
\* only posts of the content directory that share a tag with the given tag
\* list, in descending order of the number of shared tags, and holds at
\* most `limit` posts, at most 3 when no limit is given.
C28_RelatedPosts ==
    Returned("getRelatedPosts") =>
        LET R == blog.result.items IN
        /\ \A a \in DOMAIN R :
              /\ R[a].slug # blog.call.currentSlug
              /\ \E p \in Posts : R[a] = PreviewOf(p)
              /\ Shared(R[a]) # {}
        /\ \A a, b \in DOMAIN R :
              a < b => Cardinality(Shared(R[a])) >= Cardinality(Shared(R[b]))
        /\ Len(R) <= (IF blog.call.limit.kind = "number"
                      THEN blog.call.limit.value ELSE 3)

\* C28 witness: with a limit of 2, the current post and three more posts
\* sharing a tag, the two returned are a post sharing two tags and then a
\* post sharing one.
C28_Witness ==
    /\ Returned("getRelatedPosts")
    /\ blog.call.limit = Num(2)
    /\ \E p \in Posts :
          SlugOf(p) = blog.call.currentSlug /\ Shared(PreviewOf(p)) # {}
    /\ Cardinality({p \in Posts : /\ SlugOf(p) # blog.call.currentSlug
                                   /\ Shared(PreviewOf(p)) # {}}) >= 3
    /\ Len(blog.result.items) = 2
    /\ Cardinality(Shared(blog.result.items[1])) = 2
    /\ Cardinality(Shared(blog.result.items[2])) = 1

\* The given post is a published post of the content directory.
Given(post) ==
    \E p \in Posts :
        /\ SlugOf(p) = post.slug
        /\ DataOf(p).series = post.series
        /\ ~DataOf(p).draft

\* Part number, in its file, of a post that getSeriesInfo returned.
PartOf(preview) ==
    seriesPart(DataOf(CHOOSE p \in Posts : SlugOf(p) = preview.slug))

\* C29: for a published post of a series, getSeriesInfo returns the posts of
\* that series in ascending order of part, the given post at index
\* currentIndex of them, `previous` the post before it and `next` the post
\* after it, each undefined only at its end of the list.
C29_SeriesInfo ==
    (/\ Returned("getSeriesInfo")
     /\ blog.call.post.series.kind = "object"
     /\ Given(blog.call.post)) =>
        LET info == blog.result.fields
            n == Len(info.posts)
            i == info.currentIndex + 1
        IN /\ blog.result.kind = "object"
           /\ \A p \in Posts :
                 (\E a \in 1..n : info.posts[a].slug = SlugOf(p)) <=>
                     (~DataOf(p).draft /\
                      seriesName(DataOf(p)) = seriesName(blog.call.post))
           /\ \A a, b \in 1..n :
                 a < b => PartOf(info.posts[a]) <= PartOf(info.posts[b])
           /\ i \in 1..n
           /\ info.posts[i].slug = blog.call.post.slug
           /\ info.previous = (IF i > 1 THEN Obj(info.posts[i - 1]) ELSE Undefined)
           /\ info.next = (IF i < n THEN Obj(info.posts[i + 1]) ELSE Undefined)

====
